---- MODULE Spec2Model ----
(***************************************************************************)
(* fetchy: a wrapper over fetch().  Four variants of the same utility      *)
(* exist in the repository:                                                *)
(*   "instance"  src/src/lib/fetchy.ts          (timeout)                  *)
(*   "cache"     src/unnamed/part_001:38-84     (static, cache enum)       *)
(*   "callable"  src/unnamed/part_001:137-226   (timeout, responseType)    *)
(*   "static"    src/unnamed/part_001:270-316   (static, shouldCache)      *)
(* A JS object is a function from its keys to its values; an object spread *)
(* {...a, ...b} is Spread(a, b).  Each call of request() is a record of    *)
(* calls: its position (pc), its timer, its controller, what it handed to  *)
(* the transport and what it reported to its caller.                       *)
(***************************************************************************)
EXTENDS Integers, Sequences, FiniteSets, TLC

VARIABLES calls

vars == <<calls>>

\* Number of calls made on the shared instance in SpecConc.
NumCalls == 2

Calls == 1..NumCalls

\* `timeout = 5000` in the destructuring of request's options.
DefaultTimeout == 5000

Variants == {"instance", "cache", "callable", "static"}

\* The variants whose request() arms an AbortController timer.
HasTimeout(v) == v \in {"instance", "callable"}

----------------------------------------------------------------------------
\* JS objects

EmptyObj == [k \in {} |-> TRUE]

\* {...a, ...b}: b's keys win.
Spread(a, b) == b @@ a

\* const { k, ...rest } = o: rest.
Rest(o, keys) == [k \in DOMAIN o \ keys |-> o[k]]

\* ...o.headers: spreading an absent (undefined) headers adds nothing.
HeadersOf(o) == IF "headers" \in DOMAIN o THEN o.headers ELSE EmptyObj

DefaultHeaders == [k \in {"Content-Type"} |-> "application/json"]

\* Variation: one controller at module level, shared by every call.
SharedControllerSignal(i) == [owner |-> "controller", call |-> 0]

\* controller.signal of the controller created by call i.
ControllerSignal(i) == [owner |-> "controller", call |-> i]

\* An AbortSignal the caller of call i made and put in its options.
CallerSignal(i) == [owner |-> "caller", call |-> i]

----------------------------------------------------------------------------
\* JS values passed as the body argument of post/put, and JSON.stringify.

Undefined == "undefined"

BodyArgs ==
    { [type |-> "object", key |-> "name", val |-> "B"],
      [type |-> "string", key |-> "", val |-> "B"],
      [type |-> "undefined", key |-> "", val |-> ""] }

NoArg == [type |-> "undefined", key |-> "", val |-> ""]

\* JSON.stringify(body): an object with one string field, a string, or
\* undefined (for which JSON.stringify returns undefined, not a text).
JSONStringify(b) ==
    CASE b.type = "object" -> "{\"" \o b.key \o "\":\"" \o b.val \o "\"}"
      [] b.type = "string" -> "\"" \o b.val \o "\""
      [] OTHER -> Undefined

----------------------------------------------------------------------------
\* The entry points: the options each hands to request().

GetOptions(o) == Spread(o, [method |-> "GET"])

\* Variation: the caller's options spread last, so its method and body win.
PostOptionsCallerWins(o, b) ==
    Spread([method |-> "POST", body |-> JSONStringify(b)], o)

PostOptions(o, b) == Spread(o, [method |-> "POST", body |-> JSONStringify(b)])

PutOptions(o, b) == Spread(o, [method |-> "PUT", body |-> JSONStringify(b)])

DeleteOptions(o) == Spread(o, [method |-> "DELETE"])

Entries == {"get", "post", "put", "delete"}

EntryOptions(e, o, b) ==
    CASE e = "get" -> GetOptions(o)
      [] e = "post" -> PostOptions(o, b)
      [] e = "put" -> PutOptions(o, b)
      [] e = "delete" -> DeleteOptions(o)

----------------------------------------------------------------------------
\* request(): the options handed to fetch(), per variant.  ro is request's
\* options argument, sig the signal of the controller request created.

\* const { timeout = 5000, ...fetchOptions } = options
Timeout(ro) == IF "timeout" \in DOMAIN ro THEN ro.timeout ELSE DefaultTimeout

MergedHeaders(fo) == Spread(DefaultHeaders, HeadersOf(fo))

InstanceInit(ro, sig) ==
    LET fetchOptions == Rest(ro, {"timeout"})
    IN Spread([headers |-> MergedHeaders(fetchOptions), signal |-> sig],
              fetchOptions)

CacheInit(ro) ==
    LET fetchOptions == Rest(ro, {"cache"})
        directive == IF "cache" \in DOMAIN ro /\ ro.cache = "no-cache"
                     THEN [cache |-> "no-cache"] ELSE EmptyObj
    IN Spread(Spread([headers |-> MergedHeaders(fetchOptions)], directive),
              fetchOptions)

CallableInit(ro, sig) ==
    LET fetchOptions == Rest(ro, {"timeout"})
    IN Spread([headers |-> MergedHeaders(fetchOptions), signal |-> sig],
              fetchOptions)

StaticInit(ro) ==
    LET fetchOptions == Rest(ro, {"shouldCache"})
        shouldCache == IF "shouldCache" \in DOMAIN ro THEN ro.shouldCache ELSE TRUE
        directive == IF shouldCache THEN EmptyObj ELSE [cache |-> "no-cache"]
    IN Spread(Spread([headers |-> MergedHeaders(fetchOptions)], directive),
              fetchOptions)

TransportInit(v, ro, sig) ==
    CASE v = "instance" -> InstanceInit(ro, sig)
      [] v = "cache" -> CacheInit(ro)
      [] v = "callable" -> CallableInit(ro, sig)
      [] v = "static" -> StaticInit(ro)

----------------------------------------------------------------------------
\* Responses: a status (response.ok) and a body text, and their decoding.

Bodies ==
    { "{\"message\":\"not found\"}", "{\"message\":\"\"}", "{}", "null", "<html>" }

Responses == [ok : BOOLEAN, body : Bodies]

\* JSON.parse on the body texts above: an object with string fields, null,
\* or a SyntaxError (valid = FALSE).
ParseJSON(text) ==
    CASE text = "{\"message\":\"not found\"}" ->
             [valid |-> TRUE, type |-> "object",
              fields |-> [k \in {"message"} |-> "not found"]]
      [] text = "{\"message\":\"\"}" ->
             [valid |-> TRUE, type |-> "object", fields |-> [k \in {"message"} |-> ""]]
      [] text = "{}" -> [valid |-> TRUE, type |-> "object", fields |-> EmptyObj]
      [] text = "null" -> [valid |-> TRUE, type |-> "null", fields |-> EmptyObj]
      [] OTHER -> [valid |-> FALSE, type |-> "none", fields |-> EmptyObj]

\* What a call reports to its caller: a decoded value (name is its
\* representation, data the body it was decoded from) or an error (name is
\* the error's name, data its message).
ValueOf(repr, text) == [kind |-> "value", name |-> repr, data |-> text]

ErrorOf(name, message) == [kind |-> "error", name |-> name, data |-> message]

AbortError == ErrorOf("AbortError", "The operation was aborted.")

NetworkError == ErrorOf("TypeError", "Failed to fetch")

SyntaxError == ErrorOf("SyntaxError", "Unexpected token")

NullError == ErrorOf("TypeError", "Cannot read properties of null")

\* The generic message of each variant.
Fallback(v) ==
    IF v = "cache" THEN "An error occurred"
    ELSE "An error occurred while fetching the data."

\* response.json() settled: the decoded value, or the SyntaxError.
JsonOutcome(text) ==
    IF ParseJSON(text).valid THEN ValueOf("json", text) ELSE SyntaxError

\* const error = await response.json(); throw new Error(error.message || fallback)
ErrorBodyOutcome(v, text) ==
    LET error == ParseJSON(text)
    IN CASE ~error.valid -> SyntaxError
         [] error.type = "null" -> NullError
         [] OTHER ->
             ErrorOf("Error",
                     IF "message" \in DOMAIN error.fields /\ error.fields.message # ""
                     THEN error.fields.message ELSE Fallback(v))

\* Whether the non-ok branch awaits response.json(): always, except in the
\* callable variant, which does so only if options.responseType === "json".
ReadsErrorBody(v, ro) ==
    \/ v # "callable"
    \/ "responseType" \in DOMAIN ro /\ ro.responseType = "json"

SupportedTypes == {"json", "text", "blob", "arrayBuffer"}

\* options.responseType || "json": absent and "" are both falsy.
ResponseType(ro) ==
    IF "responseType" \in DOMAIN ro /\ ro.responseType # "" THEN ro.responseType
    ELSE "json"

\* Variation: an unrecognised responseType is decoded as json.
ParseResponseLenient(ro, text) ==
    LET rt == ResponseType(ro)
    IN IF rt \in {"text", "blob", "arrayBuffer"} THEN ValueOf(rt, text)
       ELSE JsonOutcome(text)

\* parseResponse of the callable variant, once the body has been read.
ParseResponse(ro, text) ==
    LET rt == ResponseType(ro)
    IN CASE rt = "json" -> JsonOutcome(text)
         [] rt \in {"text", "blob", "arrayBuffer"} -> ValueOf(rt, text)
         [] OTHER -> ErrorOf("Error", "Unsupported response type: " \o rt)

\* The outcome of the promise request() returns for an ok response.
SuccessOutcome(v, ro, text) ==
    IF v = "callable" THEN ParseResponse(ro, text) ELSE JsonOutcome(text)

----------------------------------------------------------------------------
\* Calls

IdleCall ==
    [pc |-> "idle", variant |-> "none", entry |-> "none", arg |-> NoArg,
     options |-> EmptyObj, ro |-> EmptyObj,
     signal |-> [owner |-> "none", call |-> 0],
     timer |-> "none", delay |-> 0, aborted |-> FALSE, callerAborted |-> FALSE,
     elapsed |-> FALSE, lateFire |-> FALSE,
     sent |-> <<>>, response |-> <<>>, raised |-> "none", reports |-> <<>>]

\* Positions at which a transport operation of the call is pending: the
\* fetch itself, the body read of the non-ok branch (inside try), the body
\* read of the returned promise (after finally has run).
Pending == {"fetching", "errorBody", "body"}

\* Variation: the timer is left armed.
ClearTimeoutNoop(t) == t

\* clearTimeout(timeoutId): disarms an armed timer, nothing otherwise.
ClearTimeout(t) == IF t = "armed" THEN "cleared" ELSE t

\* finally { clearTimeout(timeoutId) } (variants with a timer).
Finally(c) ==
    IF HasTimeout(c.variant) THEN [c EXCEPT !.timer = ClearTimeout(@)] ELSE c

\* The promise request() returned settles with outcome o.
Settle(c, o) == [c EXCEPT !.pc = "settled", !.reports = Append(@, o)]

\* An error thrown inside the try block: finally runs, the call rejects.
Throw(c, e) == Settle(Finally(c), e)

\* The signal the transport of call c listens to.
Listens(c) ==
    IF c.sent # <<>> /\ "signal" \in DOMAIN c.sent[1] THEN c.sent[1].signal
    ELSE [owner |-> "none", call |-> 0]

\* Variation: the abort is caught and dropped; the call stays pending.
RejectAbortSuppressed(c) == [c EXCEPT !.raised = "abort"]

\* A pending transport operation rejects with an AbortError: inside the try
\* block finally runs; the body read of the returned promise is past it.
RejectAbort(c) ==
    LET r == [c EXCEPT !.raised = "abort"]
    IN IF c.pc = "body" THEN Settle(r, AbortError) ELSE Throw(r, AbortError)

\* sig aborts: every pending transport operation listening to it rejects.
AbortSignal(cs, sig) ==
    [j \in DOMAIN cs |->
        IF cs[j].pc \in Pending /\ Listens(cs[j]) = sig
        THEN RejectAbort(cs[j]) ELSE cs[j]]

----------------------------------------------------------------------------
\* What callers pass.  A choice is <<>> (the key is absent) or <<value>>.

Opt(k, choice) == IF choice = <<>> THEN EmptyObj ELSE [x \in {k} |-> choice[1]]

HeaderChoices ==
    { <<>>,
      <<[k \in {"Authorization"} |-> "Bearer t"]>>,
      <<[k \in {"Content-Type"} |-> "text/plain"]>> }

TimeoutChoices(v) == IF HasTimeout(v) THEN {<<>>, <<10>>} ELSE {<<>>}

CacheChoices(v) ==
    CASE v = "cache" -> {<<>>, <<"no-cache">>, <<"default">>}
      [] v = "static" -> {<<>>, <<"default">>}
      [] v = "instance" -> {<<>>, <<"default">>}
      [] OTHER -> {<<>>}

ShouldCacheChoices(v) ==
    IF v \in {"instance", "static"} THEN {<<>>, <<TRUE>>, <<FALSE>>} ELSE {<<>>}

ResponseTypeChoices(v) ==
    IF v = "callable"
    THEN {<<>>, <<"json">>, <<"text">>, <<"blob">>, <<"arrayBuffer">>, <<"xml">>,
          <<"">>}
    ELSE {<<>>}

\* The options objects a caller of call i may pass to variant v.
OptionsFor(v, i) ==
    { Opt("headers", h) @@ Opt("signal", s) @@ Opt("timeout", t)
        @@ Opt("method", m) @@ Opt("body", b) @@ Opt("cache", c)
        @@ Opt("shouldCache", sc) @@ Opt("responseType", rt)
        @@ Opt("credentials", cr) :
        h \in HeaderChoices, s \in {<<>>, <<CallerSignal(i)>>},
        t \in TimeoutChoices(v), m \in {<<>>, <<"PATCH">>},
        b \in {<<>>, <<"raw">>}, c \in CacheChoices(v),
        sc \in ShouldCacheChoices(v), rt \in ResponseTypeChoices(v),
        cr \in {<<>>, <<"include">>} }

ArgsFor(e) == IF e \in {"post", "put"} THEN BodyArgs ELSE {NoArg}

\* Every call of every entry point of every variant.
AllInputs(i) ==
    UNION { { [variant |-> v, entry |-> e, arg |-> a, options |-> o] :
                a \in ArgsFor(e), o \in OptionsFor(v, i) } :
            v \in Variants, e \in Entries }

Inputs == AllInputs(1)

\* The calls made on the shared instance of src/src/lib/fetchy.ts in SpecConc.
ConcInputs(i) ==
    { [variant |-> "instance", entry |-> "get", arg |-> NoArg, options |-> o] :
        o \in { EmptyObj, [timeout |-> 10], [signal |-> CallerSignal(i)] } }

ConcResponses == [ok : BOOLEAN, body : {"{\"message\":\"not found\"}", "<html>"}]

----------------------------------------------------------------------------
\* Actions

Init == calls = [i \in Calls |-> IdleCall]

\* get/post/put/delete up to `await fetch(...)`: the entry point builds
\* request's options; request arms the timer and hands the init to fetch.
Invoke(i, inputs) ==
    /\ calls[i].pc = "idle"
    /\ \E inp \in inputs :
       LET v == inp.variant
           ro == EntryOptions(inp.entry, inp.options, inp.arg)
           sig == IF HasTimeout(v) THEN ControllerSignal(i) ELSE IdleCall.signal
       IN calls' = [calls EXCEPT ![i] =
              [IdleCall EXCEPT
                  !.pc = "fetching", !.variant = v, !.entry = inp.entry,
                  !.arg = inp.arg, !.options = inp.options, !.ro = ro,
                  !.signal = sig,
                  !.timer = IF HasTimeout(v) THEN "armed" ELSE "none",
                  !.delay = IF HasTimeout(v) THEN Timeout(ro) ELSE 0,
                  !.sent = <<TransportInit(v, ro, sig)>>]]

\* fetch resolves with a response; request runs to its next await or to its
\* end.  Non-ok: await response.json(), or (callable, responseType not
\* "json") throw the generic error.  Ok: `return response.json()` /
\* `return this.parseResponse(...)` starts the body read (an unsupported
\* responseType throws at once), finally runs, and the call waits for the
\* returned promise.
FetchResolves(i, r) ==
    /\ calls[i].pc = "fetching"
    /\ LET c == [calls[i] EXCEPT !.response = <<r>>]
           v == c.variant
       IN calls' = [calls EXCEPT ![i] =
              IF ~r.ok
              THEN IF ReadsErrorBody(v, c.ro)
                   THEN [c EXCEPT !.pc = "errorBody"]
                   ELSE Throw(c, ErrorOf("Error", Fallback(v)))
              ELSE IF v = "callable" /\ ResponseType(c.ro) \notin SupportedTypes
                   THEN Throw(c, ParseResponse(c.ro, r.body))
                   ELSE [Finally(c) EXCEPT !.pc = "body"]]

\* fetch rejects (network failure): finally runs, the error propagates.
FetchRejects(i) ==
    /\ calls[i].pc = "fetching"
    /\ calls' = [calls EXCEPT ![i] =
           Throw([calls[i] EXCEPT !.raised = "network"], NetworkError)]

\* The non-ok branch's response.json() settles; request throws.
ErrorBodyRead(i) ==
    /\ calls[i].pc = "errorBody"
    /\ LET c == calls[i]
       IN calls' = [calls EXCEPT ![i] =
              Throw(c, ErrorBodyOutcome(c.variant, c.response[1].body))]

\* The returned promise's body read settles (finally has already run).
BodyRead(i) ==
    /\ calls[i].pc = "body"
    /\ LET c == calls[i]
       IN calls' = [calls EXCEPT ![i] =
              Settle(c, SuccessOutcome(c.variant, c.ro, c.response[1].body))]

\* The connection fails while a body is being read.
BodyReadFails(i) ==
    /\ calls[i].pc \in {"errorBody", "body"}
    /\ LET c == [calls[i] EXCEPT !.raised = "network"]
       IN calls' = [calls EXCEPT ![i] =
              IF c.pc = "body" THEN Settle(c, NetworkError)
              ELSE Throw(c, NetworkError)]

\* The timer's callback runs: () => controller.abort().
TimerFire(i) ==
    /\ calls[i].timer = "armed"
    /\ LET c == calls[i]
           fired == [c EXCEPT !.timer = "fired", !.aborted = TRUE,
                              !.elapsed = TRUE,
                              !.lateFire = (c.pc = "settled")]
       IN calls' = AbortSignal([calls EXCEPT ![i] = fired], c.signal)

\* timeout ms pass since the call started, its timer having been cleared.
Elapse(i) ==
    /\ calls[i].timer = "cleared"
    /\ calls[i].pc # "settled"
    /\ ~calls[i].elapsed
    /\ calls' = [calls EXCEPT ![i].elapsed = TRUE]

\* The caller aborts the signal it passed in its options.
CallerAbort(i) ==
    /\ calls[i].pc \in Pending
    /\ "signal" \in DOMAIN calls[i].options
    /\ ~calls[i].callerAborted
    /\ calls' = AbortSignal([calls EXCEPT ![i].callerAborted = TRUE],
                            calls[i].options.signal)

\* One call, of any variant, with any options.
Next ==
    \/ Invoke(1, Inputs)
    \/ \E r \in Responses : FetchResolves(1, r)
    \/ FetchRejects(1)
    \/ ErrorBodyRead(1)
    \/ BodyRead(1)
    \/ BodyReadFails(1)
    \/ TimerFire(1)
    \/ Elapse(1)
    \/ CallerAbort(1)

Spec == Init /\ [][Next]_vars

\* NumCalls concurrent calls on the shared instance.
NextConc ==
    \E i \in Calls :
        \/ Invoke(i, ConcInputs(i))
        \/ \E r \in ConcResponses : FetchResolves(i, r)
        \/ FetchRejects(i)
        \/ ErrorBodyRead(i)
        \/ BodyRead(i)
        \/ BodyReadFails(i)
        \/ TimerFire(i)
        \/ Elapse(i)
        \/ CallerAbort(i)

SpecConc == Init /\ [][NextConc]_vars

----------------------------------------------------------------------------
\* Properties

Settled(c) == c.pc = "settled"

Report(c) == c.reports[1]

Unsupported(c) == c.variant = "callable" /\ ResponseType(c.ro) \notin SupportedTypes

\* C1: with timeout support, a call that has not settled when its timeout
\* elapses fails with an abort-style error; hence no call delivers a decoded
\* value after its timeout has elapsed, whether the time went into waiting
\* for the response or into decoding its body.
C1_TimeoutBoundsEveryCall ==
    \A i \in Calls :
        LET c == calls[i]
        IN HasTimeout(c.variant) /\ c.elapsed /\ Settled(c)
               => Report(c).kind # "value"

\* C2: with timeout support, a settled call's timer is disarmed (cleared, or
\* already fired), whichever path settled it; the timer callback never runs
\* after the call settled, and the call reported exactly one outcome.
C2_TimerDisarmedOnSettle ==
    \A i \in Calls :
        LET c == calls[i]
        IN HasTimeout(c.variant) /\ Settled(c)
               => /\ c.timer \in {"cleared", "fired"}
                  /\ ~c.lateFire
                  /\ Len(c.reports) = 1

\* A call settled by a failure while decoding an error body, timer cleared.
C2_Witness ==
    \E i \in Calls :
        LET c == calls[i]
        IN /\ HasTimeout(c.variant) /\ Settled(c)
           /\ c.response # <<>> /\ ~c.response[1].ok
           /\ c.reports = <<SyntaxError>>
           /\ c.timer = "cleared"

\* The message C3 states for a non-success response with the given body.
StatedMessage(v, text) ==
    LET p == ParseJSON(text)
    IN IF p.valid /\ "message" \in DOMAIN p.fields THEN p.fields.message
       ELSE Fallback(v)

\* C3: a call whose response has a non-success status fails, with the body's
\* message field as its message if the body is valid JSON with that field,
\* and with the generic fallback in every other case; in every variant and
\* with default options too.
C3_HttpFailureMessage ==
    \A i \in Calls :
        LET c == calls[i]
        IN Settled(c) /\ c.response # <<>> /\ ~c.response[1].ok /\ c.raised = "none"
               => /\ Report(c).kind = "error"
                  /\ Report(c).data = StatedMessage(c.variant, c.response[1].body)

\* C4: the headers handed to the transport are the default set overlaid with
\* the caller's headers, also when the caller supplied only other headers.
C4_HeadersAreDefaultsOverlaid ==
    \A i \in Calls :
        LET c == calls[i]
        IN c.sent # <<>>
               => c.sent[1].headers = Spread(DefaultHeaders, HeadersOf(c.options))

\* C5 as stated: a call with an unrecognised responseType fails with the
\* "Unsupported response type" error before the transport is invoked.
C5_UnsupportedTypeFailsBeforeSend ==
    \A i \in Calls :
        LET c == calls[i]
        IN Unsupported(c)
               => /\ c.sent = <<>>
                  /\ Settled(c) =>
                        Report(c).data = "Unsupported response type: " \o ResponseType(c.ro)

\* C5 amended: a call with an unrecognised (and non-empty) responseType is
\* handed to the transport once and always fails; unless the transport itself fails or
\* aborts, the error is "Unsupported response type" for a success status and
\* the generic error for a non-success status.
C5_UnsupportedTypeFailsAfterSend ==
    \A i \in Calls :
        LET c == calls[i]
        IN Unsupported(c) /\ Settled(c)
               => /\ Len(c.sent) = 1
                  /\ Report(c).kind = "error"
                  /\ c.raised = "none" =>
                        /\ c.response # <<>>
                        /\ Report(c) =
                              IF c.response[1].ok
                              THEN ErrorOf("Error", "Unsupported response type: "
                                                      \o ResponseType(c.ro))
                              ELSE ErrorOf("Error", Fallback(c.variant))

\* A call with responseType "xml" that got a success status and failed with
\* the unsupported-type error, after its one transport send.
C5_Witness ==
    \E i \in Calls :
        LET c == calls[i]
        IN /\ Unsupported(c) /\ Settled(c)
           /\ Len(c.sent) = 1
           /\ c.response # <<>> /\ c.response[1].ok
           /\ Report(c).data = "Unsupported response type: xml"

\* C6: a call with shouldCache: false (documented for the instance and the
\* static variant) hands the transport cache: "no-cache", whatever else the
\* caller passes.
C6_ShouldCacheFalseSkipsCache ==
    \A i \in Calls :
        LET c == calls[i]
        IN ( /\ c.variant \in {"instance", "static"}
             /\ "shouldCache" \in DOMAIN c.options
             /\ c.options.shouldCache = FALSE
             /\ c.sent # <<>> )
               => "cache" \in DOMAIN c.sent[1] /\ c.sent[1].cache = "no-cache"

\* C7: a call goes idle -> in flight -> one outcome: the transport is invoked
\* once when the call starts and never again, the caller gets one report,
\* exactly when the call has settled, and a failure or abort raised by the
\* transport is that report, as an error.
C7_OneOutcomePerCall ==
    \A i \in Calls :
        LET c == calls[i]
        IN /\ Len(c.sent) = (IF c.pc = "idle" THEN 0 ELSE 1)
           /\ Len(c.reports) = (IF Settled(c) THEN 1 ELSE 0)
           /\ c.raised # "none" =>
                  /\ Settled(c)
                  /\ Report(c) = IF c.raised = "abort" THEN AbortError ELSE NetworkError

\* A call whose transport was aborted and which reported the abort error.
C7_Witness ==
    \E i \in Calls :
        LET c == calls[i]
        IN Settled(c) /\ c.raised = "abort" /\ c.reports = <<AbortError>>

\* C8: concurrent calls on the shared instance share no state: every step
\* (a response, a timer firing, a timer cleared, an abort) changes one call
\* and leaves every other call as it was.
C8_CallsIndependent ==
    [][\A i, j \in Calls :
           i # j => calls'[i] = calls[i] \/ calls'[j] = calls[j]]_vars

\* Call 1 was aborted by its timer while call 2 is in flight, timer armed.
C8_Witness ==
    /\ calls[1].timer = "fired" /\ calls[1].reports = <<AbortError>>
    /\ calls[2].pc = "fetching" /\ calls[2].timer = "armed"
    /\ Listens(calls[2]) = ControllerSignal(2)

MethodOf(e) ==
    CASE e = "get" -> "GET" [] e = "post" -> "POST"
      [] e = "put" -> "PUT" [] e = "delete" -> "DELETE"

\* The keys an entry point sets itself.
FixedKeys(e) == IF e \in {"post", "put"} THEN {"method", "body"} ELSE {"method"}

\* The options request() of each variant takes out for itself.
OwnKeys(v) ==
    CASE v \in {"instance", "callable"} -> {"timeout"}
      [] v = "cache" -> {"cache"}
      [] v = "static" -> {"shouldCache"}

C10_TransportGetsOwnSignal ==
    \A i \in Calls :
        LET c == calls[i]
        IN HasTimeout(c.variant) /\ c.sent # <<>>
               => /\ "signal" \in DOMAIN c.sent[1]
                  /\ c.sent[1].signal = ControllerSignal(i)
                  /\ c.timer = "fired" => c.reports = <<AbortError>>

====
